---------------------------- MODULE Spec2Model ----------------------------
(***************************************************************************)
(* Model of the music synchronisation hub, src/server/websocket-server.js  *)
(* (class MusicSyncServer).                                                *)
(*                                                                         *)
(* Node runs every callback of the server to completion on one thread and  *)
(* no handler awaits, so each handler of the source is one action here.    *)
(* A handler is an operator from a server state st = [rooms, clients,      *)
(* sent, threw] to the server state it leaves behind, so that handlers     *)
(* that call one another (handleJoinRoom -> handleLeaveRoom ->             *)
(* broadcastToRoom -> sendMessage) compose as they do in the source.       *)
(*                                                                         *)
(* Values: a JavaScript null is NoSong / NoRoomId / NoWs for references    *)
(* and None (the empty tuple) for numbers, <<x>> being the number x; a     *)
(* missing property is Undefined.  A song record is its id.  The position  *)
(* that the state replies derive by dividing milliseconds by 1000 is kept  *)
(* as its numerator (field positionMs) so that the division stays exact.   *)
(* Every Date.now() of one handler reads the same clock value.             *)
(***************************************************************************)
EXTENDS Integers, Sequences, FiniteSets, TLC

\* ------------------------------------------------------------------ bounds
Sessions == {"A", "B"}
RoomIds == {"r1", "r2"}
Songs == {"s1", "s2"}
\* the clock starts at T0 and advances TickMs at a time, MaxTicks times
T0 == 5000
TickMs == 500
MaxTicks == 2
\* the queue of a room holds at most MaxQueue songs in the model
MaxQueue == 2

\* ------------------------------------------------------------ JS values
MsPerSec == 1000
NoSong == "null"
NoRoomId == "null"
NoWs == "null"
Undefined == "undefined"
None == <<>>
Some(x) == <<x>>
Server == "server"

\* the inputs a client may put in a message: a song or none, a position in
\* seconds or none, a song id, a request id
SongInputs == Songs \cup {NoSong}
PositionInputs == {None, Some(-1), Some(1)}
SongIdInputs == {"s1"}
RequestIds == {"q1"}

VARIABLES
    rooms,       \* this.rooms: roomId -> room
    clients,     \* this.clients: ws -> client info
    readyState,  \* ws.readyState of every session
    now,         \* Date.now()
    sent,        \* what the last step wrote to every socket, in order
    last,        \* the last step: its kind, its sender, and what it found
    hub,         \* the server process: running, closing after SIGINT, exited
    lib,         \* one WebSocketMusicSync of the client library
    subs         \* its callbacks for one message type, and the last dispatch

\* the server, and what stands beside it
server == <<rooms, clients, readyState, now, sent, last, hub>>
beside == <<lib, subs>>
vars == <<rooms, clients, readyState, now, sent, last, hub, lib, subs>>

\* ---------------------------------------------------------------- helpers
Put(f, k, v) == [x \in DOMAIN f \cup {k} |-> IF x = k THEN v ELSE f[x]]
Del(f, k) == [x \in DOMAIN f \ {k} |-> f[x]]
NoSent == [s \in Sessions |-> <<>>]

\* message.position || 0
OrZero(o) == IF o = None THEN 0 ELSE o[1]

\* a JavaScript number or null used as a condition
Truthy(o) == o # None /\ o # Some(0)

\* the playbackState literal of a new room
NewPlaybackState(t) ==
    [isPlaying |-> FALSE, currentSong |-> NoSong, position |-> 0,
     startTime |-> None, lastUpdated |-> t,
     songId |-> Undefined, triggeredBy |-> Undefined]

NewRoom(roomId, t) ==
    [id |-> roomId, clients |-> {}, queue |-> <<>>,
     playbackState |-> NewPlaybackState(t)]

\* ------------------------------------------------------------- sending
sendMessage(st, ws, message) ==
    IF readyState[ws] = "OPEN"
    THEN [st EXCEPT !.sent[ws] = Append(@, message)]
    ELSE st

sendError(st, ws, error) ==
    sendMessage(st, ws, [type |-> "error", message |-> error, timestamp |-> now])

broadcastToRoom_Everyone(st, roomId, message, excludeWs) ==
    IF roomId \notin DOMAIN st.rooms THEN st
    ELSE [st EXCEPT !.sent =
            [s \in Sessions |->
                IF s # excludeWs /\ readyState[s] = "OPEN"
                THEN Append(st.sent[s], message)
                ELSE st.sent[s]]]

broadcastToRoom_Twice(st, roomId, message, excludeWs) ==
    IF roomId \notin DOMAIN st.rooms THEN st
    ELSE [st EXCEPT !.sent =
            [s \in Sessions |->
                IF /\ s \in st.rooms[roomId].clients
                   /\ s # excludeWs
                   /\ readyState[s] = "OPEN"
                THEN st.sent[s] \o <<message, message>>
                ELSE st.sent[s]]]

broadcastToRoom_StopAtClosed(st, roomId, message, excludeWs) ==
    IF roomId \notin DOMAIN st.rooms THEN st
    ELSE [st EXCEPT !.sent =
            [s \in Sessions |->
                IF /\ s \in st.rooms[roomId].clients
                   /\ s # excludeWs
                   /\ \A m \in st.rooms[roomId].clients \ {excludeWs} :
                          readyState[m] = "OPEN"
                THEN Append(st.sent[s], message)
                ELSE st.sent[s]]]

broadcastToRoom_NoExclude(st, roomId, message, excludeWs) ==
    IF roomId \notin DOMAIN st.rooms THEN st
    ELSE [st EXCEPT !.sent =
            [s \in Sessions |->
                IF s \in st.rooms[roomId].clients /\ readyState[s] = "OPEN"
                THEN Append(st.sent[s], message)
                ELSE st.sent[s]]]

broadcastToRoom(st, roomId, message, excludeWs) ==
    IF roomId \notin DOMAIN st.rooms THEN st
    ELSE [st EXCEPT !.sent =
            [s \in Sessions |->
                IF /\ s \in st.rooms[roomId].clients
                   /\ s # excludeWs
                   /\ readyState[s] = "OPEN"
                THEN Append(st.sent[s], message)
                ELSE st.sent[s]]]

\* the position the state replies report, times 1000
sendCurrentServerState(st, ws, room) ==
    LET ps == room.playbackState
        currentPositionMs ==
            IF ps.isPlaying /\ Truthy(ps.startTime)
            THEN now - ps.startTime[1]
            ELSE ps.position * MsPerSec
    IN sendMessage(st, ws,
         [type |-> "server_state_sync",
          playbackState |-> ps,
          positionMs |-> currentPositionMs,
          serverTime |-> now,
          isServerPlaying |-> ps.isPlaying])


\* ---------------------------------------------------------- membership
cleanUpEmptyRoom_Keep(st, roomId) == st

\* handleLeaveRoom: "Clean up empty room"
cleanUpEmptyRoom(st, roomId) ==
    IF st.rooms[roomId].clients = {}
    THEN [st EXCEPT !.rooms = Del(@, roomId)]
    ELSE st

handleLeaveRoom(st, ws) ==
    LET roomId == st.clients[ws].roomId IN
    IF roomId = NoRoomId THEN st
    ELSE LET st1 ==
               IF roomId \in DOMAIN st.rooms
               THEN LET removed == [st EXCEPT !.rooms[roomId].clients = @ \ {ws}]
                        told == broadcastToRoom(removed, roomId,
                                  [type |-> "client_left", clientId |-> ws,
                                   clientCount |->
                                       Cardinality(removed.rooms[roomId].clients)],
                                  NoWs)
                    IN cleanUpEmptyRoom(told, roomId)
               ELSE st
         IN [st1 EXCEPT !.clients[ws].roomId = NoRoomId]

leaveCurrentRoom_Stay(st, ws) == st

\* handleJoinRoom: "Leave current room if any"
leaveCurrentRoom(st, ws) ==
    IF st.clients[ws].roomId # NoRoomId THEN handleLeaveRoom(st, ws) ELSE st

handleJoinRoom_LeaveFirst(st, ws, roomId) ==
    LET left == leaveCurrentRoom(st, ws) IN
    IF roomId = NoRoomId THEN sendError(left, ws, "Room ID is required")
    ELSE LET referenced == [left EXCEPT !.clients[ws].roomId = roomId]
             created == IF roomId \notin DOMAIN referenced.rooms
                        THEN [referenced EXCEPT
                                !.rooms = Put(@, roomId, NewRoom(roomId, now))]
                        ELSE referenced
             added == [created EXCEPT !.rooms[roomId].clients = @ \cup {ws}]
             room == added.rooms[roomId]
             joined == sendMessage(added, ws,
                         [type |-> "room_joined", roomId |-> roomId,
                          playbackState |-> room.playbackState,
                          clientCount |-> Cardinality(room.clients)])
             synced == sendCurrentServerState(joined, ws, room)
         IN broadcastToRoom(synced, roomId,
              [type |-> "client_joined", clientId |-> ws,
               clientCount |-> Cardinality(room.clients)],
              ws)

handleJoinRoom(st, ws, roomId) ==
    IF roomId = NoRoomId THEN sendError(st, ws, "Room ID is required")
    ELSE LET left == leaveCurrentRoom(st, ws)
             referenced == [left EXCEPT !.clients[ws].roomId = roomId]
             created == IF roomId \notin DOMAIN referenced.rooms
                        THEN [referenced EXCEPT
                                !.rooms = Put(@, roomId, NewRoom(roomId, now))]
                        ELSE referenced
             added == [created EXCEPT !.rooms[roomId].clients = @ \cup {ws}]
             room == added.rooms[roomId]
             joined == sendMessage(added, ws,
                         [type |-> "room_joined", roomId |-> roomId,
                          playbackState |-> room.playbackState,
                          clientCount |-> Cardinality(room.clients)])
             synced == sendCurrentServerState(joined, ws, room)
         IN broadcastToRoom(synced, roomId,
              [type |-> "client_joined", clientId |-> ws,
               clientCount |-> Cardinality(room.clients)],
              ws)

handleDisconnect(st, ws) ==
    [handleLeaveRoom(st, ws) EXCEPT !.clients = Del(@, ws)]

\* the room of a handler that starts with the two early returns
\*   if (!client.roomId) return;  if (!room) return;
HasRoom(st, ws) ==
    /\ st.clients[ws].roomId # NoRoomId
    /\ st.clients[ws].roomId \in DOMAIN st.rooms

\* ------------------------------------------------ handlers without effect
handlePlay(st, ws, message) ==
    IF ~HasRoom(st, ws) THEN st
    ELSE sendCurrentServerState(st, ws, st.rooms[st.clients[ws].roomId])

handlePause_Stop(st, ws, message) ==
    IF ~HasRoom(st, ws) THEN st
    ELSE LET stopped == [st EXCEPT
                 !.rooms[st.clients[ws].roomId].playbackState.isPlaying = FALSE]
         IN sendCurrentServerState(stopped, ws,
                                   stopped.rooms[st.clients[ws].roomId])

handlePause(st, ws, message) ==
    IF ~HasRoom(st, ws) THEN st
    ELSE sendCurrentServerState(st, ws, st.rooms[st.clients[ws].roomId])

handleClientPause(st, ws, message) ==
    sendMessage(st, ws,
        [type |-> "client_pause_ack", clientId |-> ws, timestamp |-> now])

handleClientResume(st, ws, message) ==
    IF ~HasRoom(st, ws) THEN st
    ELSE sendCurrentServerState(st, ws, st.rooms[st.clients[ws].roomId])

handleSyncRequest(st, ws) ==
    IF ~HasRoom(st, ws) THEN st
    ELSE LET ps == st.rooms[st.clients[ws].roomId].playbackState
             currentPositionMs ==
                 IF ps.isPlaying /\ Truthy(ps.startTime)
                 THEN now - ps.startTime[1]
                 ELSE ps.position * MsPerSec
         IN sendMessage(st, ws,
              [type |-> "sync_response", playbackState |-> ps,
               positionMs |-> currentPositionMs, serverTime |-> now])

Max(a, b) == IF a >= b THEN a ELSE b

handleGetRoomState(st, ws, message) ==
    IF ~HasRoom(st, ws) THEN st
    ELSE LET room == st.rooms[st.clients[ws].roomId]
             ps == room.playbackState
             currentPositionMs ==
                 IF ps.isPlaying /\ Truthy(ps.startTime)
                 THEN Max(0, now - ps.startTime[1])
                 ELSE 0
         IN sendMessage(st, ws,
              [type |-> "room_state_response",
               currentSong |-> ps.currentSong, queue |-> room.queue,
               isPlaying |-> ps.isPlaying, positionMs |-> currentPositionMs,
               startTime |-> ps.startTime, serverTime |-> now,
               requestId |-> message.requestId])

\* -------------------------------------------- handlers of the playback state
playStartTime_NoOffset(serverTime, position) == serverTime

\* handleServerPlay: startTime: serverTime - (message.position || 0) * 1000
playStartTime(serverTime, position) == serverTime - position * MsPerSec

handleServerPlay(st, ws, message) ==
    IF ~HasRoom(st, ws) THEN st
    ELSE LET roomId == st.clients[ws].roomId
             serverTime == now
             startTime == playStartTime(serverTime, OrZero(message.position))
             st1 == [st EXCEPT !.rooms[roomId].playbackState =
                       [@ EXCEPT !.isPlaying = TRUE,
                                 !.position = OrZero(message.position),
                                 !.startTime = Some(startTime),
                                 !.lastUpdated = serverTime,
                                 !.songId = message.songId,
                                 !.triggeredBy = ws]]
         IN broadcastToRoom(st1, roomId,
              [type |-> "server_play_sync",
               position |-> OrZero(message.position),
               serverTime |-> serverTime,
               startTime |-> st1.rooms[roomId].playbackState.startTime,
               songId |-> message.songId,
               triggeredBy |-> ws],
              NoWs)

seekStartTime_Always(isPlaying, serverTime, seekPosition) ==
    Some(serverTime - seekPosition * MsPerSec)

seekStartTime_NoOffset(isPlaying, serverTime, seekPosition) ==
    IF isPlaying THEN Some(serverTime) ELSE None

\* handleSeek: the startTime of the new playbackState
seekStartTime(isPlaying, serverTime, seekPosition) ==
    IF isPlaying THEN Some(serverTime - seekPosition * MsPerSec) ELSE None

handleSeek(st, ws, message) ==
    IF ~HasRoom(st, ws) THEN st
    ELSE LET roomId == st.clients[ws].roomId
             serverTime == now
             seekPosition == OrZero(message.position)
             st1 == [st EXCEPT !.rooms[roomId].playbackState =
                       [@ EXCEPT !.position = seekPosition,
                                 !.startTime =
                                     seekStartTime(
                                         st.rooms[roomId].playbackState.isPlaying,
                                         serverTime, seekPosition),
                                 !.lastUpdated = serverTime,
                                 !.triggeredBy = ws]]
         IN broadcastToRoom(st1, roomId,
              [type |-> "seek_sync",
               position |-> seekPosition,
               isPlaying |-> st1.rooms[roomId].playbackState.isPlaying,
               serverTime |-> serverTime,
               startTime |-> st1.rooms[roomId].playbackState.startTime,
               triggeredBy |-> ws],
              NoWs)

handleSongChange(st, ws, message) ==
    IF ~HasRoom(st, ws) THEN st
    ELSE LET roomId == st.clients[ws].roomId
             serverTime == now
             st1 == [st EXCEPT !.rooms[roomId].playbackState =
                       [@ EXCEPT !.currentSong = message.song,
                                 !.position = 0,
                                 !.startTime = Some(serverTime),
                                 !.isPlaying = TRUE,
                                 !.lastUpdated = serverTime,
                                 !.triggeredBy = ws]]
         IN broadcastToRoom(st1, roomId,
              [type |-> "song_change_sync",
               song |-> message.song,
               serverTime |-> serverTime,
               startTime |-> Some(serverTime),
               triggeredBy |-> ws],
              NoWs)

\* reading .title of a song that is null or undefined throws a TypeError
Throw(st) == [st EXCEPT !.threw = TRUE]

idleState_StaleStamp(ps, t, ws) ==
    [ps EXCEPT !.isPlaying = FALSE, !.currentSong = NoSong, !.position = 0,
               !.startTime = None, !.triggeredBy = ws]

idleState_KeepSong(ps, t, ws) ==
    [ps EXCEPT !.isPlaying = FALSE, !.position = 0, !.startTime = None,
               !.lastUpdated = t, !.triggeredBy = ws]

\* handlePlaybackEnded: "No more songs - go to idle state"
idleState(ps, t, ws) ==
    [ps EXCEPT !.isPlaying = FALSE,
               !.currentSong = NoSong,
               !.position = 0,
               !.startTime = None,
               !.lastUpdated = t,
               !.triggeredBy = ws]

handlePlaybackEnded(st, ws, message) ==
    IF ~HasRoom(st, ws) THEN st
    ELSE LET roomId == st.clients[ws].roomId
             room == st.rooms[roomId]
         IN IF Len(room.queue) > 0
            THEN LET nextSong == Head(room.queue)
                     serverTime == now
                     st1 == [st EXCEPT
                               !.rooms[roomId].queue = Tail(@),
                               !.rooms[roomId].playbackState =
                                 [@ EXCEPT !.currentSong = nextSong,
                                           !.position = 0,
                                           !.startTime = Some(serverTime),
                                           !.isPlaying = TRUE,
                                           !.lastUpdated = serverTime,
                                           !.triggeredBy = Server]]
                 IN IF nextSong = NoSong THEN Throw(st1)
                    ELSE broadcastToRoom(st1, roomId,
                           [type |-> "new_song_notification",
                            song |-> nextSong,
                            startTime |-> Some(serverTime),
                            serverTime |-> serverTime],
                           NoWs)
            ELSE [st EXCEPT !.rooms[roomId].playbackState = idleState(@, now, ws)]

setsCurrent_OnlyOnRequest(setAsCurrent, ps) == setAsCurrent

\* handleAddSong: setAsCurrent || !room.playbackState.currentSong
setsCurrent(setAsCurrent, ps) == setAsCurrent \/ ps.currentSong = NoSong

push_Front(queue, song) == <<song>> \o queue

\* room.queue.push(song)
push(queue, song) == Append(queue, song)

handleAddSong(st, ws, message) ==
    IF ~HasRoom(st, ws) THEN st
    ELSE LET roomId == st.clients[ws].roomId
             room == st.rooms[roomId]
             song == message.song
             setAsCurrent == message.setAsCurrent
             serverTime == now
             Respond(s) ==
                 sendMessage(s, ws,
                   [type |-> "song_added_response",
                    success |-> TRUE,
                    song |-> song,
                    setAsCurrent |->
                        (setAsCurrent \/
                         s.rooms[roomId].playbackState.currentSong = NoSong),
                    queueLength |-> Len(s.rooms[roomId].queue)])
         IN IF setsCurrent(setAsCurrent, room.playbackState)
            THEN LET wasIdle == room.playbackState.currentSong = NoSong
                     st1 == [st EXCEPT !.rooms[roomId].playbackState =
                               [@ EXCEPT !.currentSong = song,
                                         !.position = 0,
                                         !.startTime = Some(serverTime),
                                         !.isPlaying = TRUE,
                                         !.lastUpdated = serverTime,
                                         !.triggeredBy = ws]]
                 IN IF song = NoSong THEN Throw(st1)
                    ELSE IF wasIdle
                         THEN Respond(broadcastToRoom(st1, roomId,
                                [type |-> "new_song_notification",
                                 song |-> song,
                                 startTime |-> Some(serverTime),
                                 serverTime |-> serverTime,
                                 wasIdle |-> TRUE],
                                NoWs))
                         ELSE Respond(st1)
            ELSE LET st1 == [st EXCEPT !.rooms[roomId].queue = push(@, song)]
                 IN IF song = NoSong THEN Throw(st1) ELSE Respond(st1)

\* ------------------------------------------------------------- dispatch
handleMessage(st, ws, message) ==
    IF ws \notin DOMAIN st.clients THEN st
    ELSE CASE message.type = "join_room" -> handleJoinRoom(st, ws, message.roomId)
           [] message.type = "leave_room" -> handleLeaveRoom(st, ws)
           [] message.type = "play" -> handlePlay(st, ws, message)
           [] message.type = "pause" -> handlePause(st, ws, message)
           [] message.type = "seek" -> handleSeek(st, ws, message)
           [] message.type = "song_change" -> handleSongChange(st, ws, message)
           [] message.type = "sync_request" -> handleSyncRequest(st, ws)
           [] message.type = "server_play" -> handleServerPlay(st, ws, message)
           [] message.type = "client_pause" -> handleClientPause(st, ws, message)
           [] message.type = "client_resume" -> handleClientResume(st, ws, message)
           [] message.type = "playback_ended" -> handlePlaybackEnded(st, ws, message)
           [] message.type = "get_room_state" -> handleGetRoomState(st, ws, message)
           [] message.type = "add_song" -> handleAddSong(st, ws, message)
           [] OTHER -> sendError(st, ws,
                                 "Unknown message type: " \o message.type)

\* a frame that JSON.parse rejects, or the JSON null, whose .type throws
BadFrame == [frame |-> "not json"]
IsBadFrame(data) == "type" \notin DOMAIN data
Kind(data) == IF IsBadFrame(data) THEN "bad_frame" ELSE data.type

onMessage_Disconnect(st, ws, data) ==
    IF IsBadFrame(data) THEN handleDisconnect(Throw(st), ws)
    ELSE LET done == handleMessage(st, ws, data)
         IN IF done.threw
            THEN sendError(done, ws, "Invalid message format")
            ELSE done

\* ws.on("message"): parse, dispatch, and answer whatever was thrown
onMessage(st, ws, data) ==
    IF IsBadFrame(data) THEN sendError(Throw(st), ws, "Invalid message format")
    ELSE LET done == handleMessage(st, ws, data)
         IN IF done.threw
            THEN sendError(done, ws, "Invalid message format")
            ELSE done

\* ------------------------------------------------- the client library
\* WebSocketMusicSync: maxReconnectAttempts, reconnectDelay
MaxReconnectAttempts == 5
ReconnectDelay == 1000
\* the sockets one client creates in a run, and the calls of its
\* application and online events of its browser in a run
MaxSockets == 6
MaxCalls == 4
Sockets == 1..MaxSockets
\* this.ws = null
NoSocket == 0
\* the room the application joins
Room == "r1"

\* the library as constructed: no socket, no room, no timer pending. Beside
\* the fields of the class: the state of every socket, who awaits the promise
\* of its connect(), the delays of the reconnect timers that are pending, and
\* what claims are about: the delays scheduled since the last open, the times
\* max_reconnect_attempts was emitted since then, whether the last call of the
\* application was disconnect(), and what the last step was, whether it
\* created a socket, how many join_room it sent, and who had awaited the
\* socket it opened.
NewLib ==
    [ws |-> NoSocket, roomId |-> NoRoomId, reconnectAttempts |-> 0,
     isConnecting |-> FALSE,
     socketState |-> [s \in Sockets |-> "UNUSED"],
     waiter |-> [s \in Sockets |-> "none"],
     timers |-> << >>,
     delays |-> << >>, emitted |-> 0,
     disconnected |-> FALSE,
     step |-> "new", created |-> FALSE, joins |-> 0, by |-> "none",
     calls |-> 0]

\* this.ws?.readyState === WebSocket.OPEN
WsOpen(L) == L.ws # NoSocket /\ L.socketState[L.ws] = "OPEN"

\* the sockets that are connecting or open
Live(L) == {s \in Sockets : L.socketState[s] \in {"CONNECTING", "OPEN"}}

\* the socket a new WebSocket(url) would be
Unused(L) == {s \in Sockets : L.socketState[s] = "UNUSED"}
NextSocket(L) == CHOOSE s \in Unused(L) : \A u \in Unused(L) : s <= u

\* send({type: "join_room", roomId}): dropped unless this.ws is open
sendJoinRoom(L) == IF WsOpen(L) THEN [L EXCEPT !.joins = @ + 1] ELSE L

\* connect(), past its two early returns: the new socket and its handlers;
\* by is who awaits the promise
newWebSocket(L, by) ==
    LET s == NextSocket(L)
    IN [L EXCEPT !.isConnecting = TRUE,
                 !.ws = s,
                 !.socketState[s] = "CONNECTING",
                 !.waiter[s] = by,
                 !.created = TRUE]

\* joinRoom(roomId) after its await ensureConnected()
joined(L) == sendJoinRoom([L EXCEPT !.roomId = Room])

\* joinRoom(roomId): ensureConnected() returns at once on an open socket and
\* awaits connect() otherwise, which rejects while isConnecting
joinRoom(L) ==
    IF WsOpen(L) THEN joined(L)
    ELSE IF L.isConnecting THEN L
    ELSE newWebSocket(L, "joinRoom")

\* reconnect() after its await connect()
reconnected(L) == IF L.roomId # NoRoomId THEN joinRoom(L) ELSE L

\* reconnect(): whatever connect() or joinRoom() throws is caught and logged
reconnect(L) ==
    IF WsOpen(L) THEN reconnected(L)
    ELSE IF L.isConnecting THEN L
    ELSE newWebSocket(L, "reconnect")

\* connect() called by the application
connect(L) ==
    IF WsOpen(L) THEN L
    ELSE IF L.isConnecting THEN L
    ELSE newWebSocket(L, "connect")

\* whether a call creates a socket, for which one must be left in the model
Creates(L) == ~WsOpen(L) /\ ~L.isConnecting

\* setTimeout(callback, delay): the pending timers, kept by delay
setTimeout(timers, delay) ==
    LET before == SelectSeq(timers, LAMBDA d : d <= delay)
        after == SelectSeq(timers, LAMBDA d : d > delay)
    IN before \o <<delay>> \o after

\* handleDisconnect() of the library: the next reconnect timer, or
\* max_reconnect_attempts once the attempts are used up
scheduleReconnect(L) ==
    IF L.reconnectAttempts < MaxReconnectAttempts
    THEN LET delay == ReconnectDelay * 2 ^ L.reconnectAttempts
         IN [L EXCEPT !.timers = setTimeout(@, delay),
                      !.delays = Append(@, delay)]
    ELSE [L EXCEPT !.emitted = @ + 1]

\* ws.onopen of socket s, and then whoever awaited its connect()
onopen(L, s) ==
    LET by == L.waiter[s]
        opened == [L EXCEPT !.socketState[s] = "OPEN",
                            !.isConnecting = FALSE,
                            !.reconnectAttempts = 0,
                            !.waiter[s] = "none",
                            !.by = by,
                            !.delays = << >>, !.emitted = 0]
    IN CASE by = "joinRoom" -> joined(opened)
         [] by = "reconnect" -> reconnected(opened)
         [] OTHER -> opened

\* ws.onerror and ws.onclose of socket s: the rejection of connect() is
\* logged by reconnect() and thrown to the application by the other callers
onclose(L, s) ==
    scheduleReconnect([L EXCEPT !.socketState[s] = "CLOSED",
                                !.isConnecting = FALSE,
                                !.waiter[s] = "none"])

\* disconnect()
disconnect(L) ==
    IF L.ws # NoSocket
    THEN [L EXCEPT !.socketState[L.ws] =
                       IF @ \in {"CONNECTING", "OPEN"} THEN "CLOSING" ELSE @,
                   !.ws = NoSocket]
    ELSE L

\* the callback of the reconnect timer
onTimer(L, i) ==
    reconnect([L EXCEPT !.timers = SubSeq(@, 1, i - 1) \o SubSeq(@, i + 1, Len(@)),
                        !.reconnectAttempts = @ + 1])

\* a step of the library begins: nothing created or sent in it yet
Begin(L, kind) ==
    [L EXCEPT !.step = kind, !.created = FALSE, !.joins = 0, !.by = "none"]

\* a call of the application, or an online event, begins
Called(L, kind) == [Begin(L, kind) EXCEPT !.calls = @ + 1]

\* ------------------------------------------ the callbacks of the library
\* the callbacks one client registers for a type, and its requests in a run
MaxCallbacks == 3
MaxRequests == 2
\* the callbacks of the application, registered with on()
AppCallbacks == {"a", "b"}
\* requestId of a callback that is no handleResponse
NoRequest == 0

\* callbacks.get("room_state_response") with the requestIdCounter, and of the
\* last dispatch: the array when the message arrived and the calls made
NoSubs ==
    [callbacks |-> << >>, requestIdCounter |-> 0,
     arrived |-> << >>, invoked |-> << >>, step |-> "new"]

\* callbacks.indexOf(callback), 0 for -1
indexOf(cbs, cb) ==
    IF \E i \in 1..Len(cbs) : cbs[i] = cb
    THEN CHOOSE i \in 1..Len(cbs) : cbs[i] = cb /\ \A j \in 1..(i - 1) : cbs[j] # cb
    ELSE 0

\* off(eventType, callback)
off(cbs, cb) ==
    LET index == indexOf(cbs, cb)
    IN IF index > 0
       THEN SubSeq(cbs, 1, index - 1) \o SubSeq(cbs, index + 1, Len(cbs))
       ELSE cbs

\* a callback called with the message: handleResponse of requestRoomState
\* unsubscribes itself when the response is its own
call(cbs, cb, requestId) ==
    IF cb.requestId # NoRequest /\ cb.requestId = requestId
    THEN off(cbs, cb)
    ELSE cbs

\* callbacks.forEach(...) of handleMessage: the indexes below the length the
\* array had at the start, each read from the array as it is by then
RECURSIVE forEach(_, _, _, _, _)
forEach(cbs, k, len, requestId, invoked) ==
    IF k > len THEN [callbacks |-> cbs, invoked |-> invoked]
    ELSE IF k > Len(cbs) THEN forEach(cbs, k + 1, len, requestId, invoked)
    ELSE forEach(call(cbs, cbs[k], requestId), k + 1, len, requestId,
                 Append(invoked, cbs[k]))

\* ------------------------------------------------------------------ state
\* what a step leaves in last: what it was, who sent it, and the registry and
\* the client table it found
Step(kind, ws, data, done) ==
    [kind |-> kind, from |-> ws, msg |-> data, threw |-> done.threw,
     rooms |-> rooms, clients |-> clients]

Before == [rooms |-> rooms, clients |-> clients, sent |-> NoSent, threw |-> FALSE]

Init ==
    /\ rooms = << >>
    /\ clients = << >>
    /\ readyState = [s \in Sessions |-> "CLOSED"]
    /\ now = T0
    /\ sent = NoSent
    /\ last = [kind |-> "init", from |-> NoWs, msg |-> [type |-> "init"],
               threw |-> FALSE, rooms |-> << >>, clients |-> << >>]
    /\ hub = "running"
    /\ lib = NewLib
    /\ subs = NoSubs

\* Date.now() moves on
Tick ==
    /\ now < T0 + MaxTicks * TickMs
    /\ now' = now + TickMs
    /\ sent' = NoSent
    /\ last' = Step("tick", NoWs, [type |-> "tick"], Before)
    /\ UNCHANGED <<rooms, clients, readyState, hub, beside>>

\* wss.on("connection")
Connect(ws) ==
    /\ hub = "running"
    /\ ws \notin DOMAIN clients
    /\ clients' = Put(clients, ws, [id |-> ws, roomId |-> NoRoomId])
    /\ readyState' = [readyState EXCEPT ![ws] = "OPEN"]
    /\ sent' = [NoSent EXCEPT ![ws] =
                  <<[type |-> "connected", clientId |-> ws, serverTime |-> now]>>]
    /\ last' = Step("connection", ws, [type |-> "connection"], Before)
    /\ UNCHANGED <<rooms, now, hub, beside>>

\* the socket starts closing: it is still a member, and no longer OPEN
BeginClose(ws) ==
    /\ ws \in DOMAIN clients
    /\ readyState[ws] = "OPEN"
    /\ readyState' = [readyState EXCEPT ![ws] = "CLOSING"]
    /\ sent' = NoSent
    /\ last' = Step("closing", ws, [type |-> "closing"], Before)
    /\ UNCHANGED <<rooms, clients, now, hub, beside>>

\* ws.on("close")
Close(ws) ==
    /\ ws \in DOMAIN clients
    /\ \E done \in {handleDisconnect(Before, ws)} :
          /\ rooms' = done.rooms
          /\ clients' = done.clients
          /\ sent' = done.sent
          /\ last' = Step("close", ws, [type |-> "close"], done)
    /\ readyState' = [readyState EXCEPT ![ws] = "CLOSED"]
    /\ UNCHANGED <<now, hub, beside>>

\* ws.on("message") with the frame data; done is the one outcome of the handler
Receive(ws, data) ==
    /\ ws \in DOMAIN clients
    /\ readyState[ws] = "OPEN"
    /\ \E done \in {onMessage(Before, ws, data)} :
          /\ rooms' = done.rooms
          /\ clients' = done.clients
          /\ sent' = done.sent
          /\ last' = Step(Kind(data), ws, data, done)
    /\ UNCHANGED <<readyState, now, hub, beside>>

\* one action per kind of frame, its fields drawn from the given inputs
JoinRoom(ws, roomIds) ==
    /\ ws \in DOMAIN clients
    /\ \E roomId \in roomIds :
           Receive(ws, [type |-> "join_room", roomId |-> roomId])

LeaveRoom(ws) ==
    /\ ws \in DOMAIN clients
    /\ Receive(ws, [type |-> "leave_room"])

Play(ws) ==
    /\ ws \in DOMAIN clients
    /\ Receive(ws, [type |-> "play"])

Pause(ws) ==
    /\ ws \in DOMAIN clients
    /\ Receive(ws, [type |-> "pause"])

Seek(ws, positions) ==
    /\ ws \in DOMAIN clients
    /\ \E p \in positions : Receive(ws, [type |-> "seek", position |-> p])

SongChange(ws, songs) ==
    /\ ws \in DOMAIN clients
    /\ \E song \in songs : Receive(ws, [type |-> "song_change", song |-> song])

SyncRequest(ws) ==
    /\ ws \in DOMAIN clients
    /\ Receive(ws, [type |-> "sync_request"])

ServerPlay(ws, positions) ==
    /\ ws \in DOMAIN clients
    /\ \E p \in positions, songId \in SongIdInputs :
           Receive(ws, [type |-> "server_play", position |-> p,
                        songId |-> songId])

ClientPause(ws) ==
    /\ ws \in DOMAIN clients
    /\ Receive(ws, [type |-> "client_pause"])

ClientResume(ws) ==
    /\ ws \in DOMAIN clients
    /\ Receive(ws, [type |-> "client_resume"])

PlaybackEnded(ws) ==
    /\ ws \in DOMAIN clients
    /\ Receive(ws, [type |-> "playback_ended"])

GetRoomState(ws) ==
    /\ ws \in DOMAIN clients
    /\ \E requestId \in RequestIds :
           Receive(ws, [type |-> "get_room_state", requestId |-> requestId])

\* the model stops queueing at MaxQueue songs
AddSong(ws, songs) ==
    /\ ws \in DOMAIN clients
    /\ clients[ws].roomId \in DOMAIN rooms
           => Len(rooms[clients[ws].roomId].queue) < MaxQueue
    /\ \E song \in songs, setAsCurrent \in BOOLEAN :
           Receive(ws, [type |-> "add_song", song |-> song,
                        setAsCurrent |-> setAsCurrent])

\* the type of a frame that no case of handleMessage matches: some other
\* string, or none at all
UnknownTypes == {"bogus", Undefined}

UnknownType(ws) ==
    /\ ws \in DOMAIN clients
    /\ \E type \in UnknownTypes : Receive(ws, [type |-> type])

Malformed(ws) ==
    /\ ws \in DOMAIN clients
    /\ Receive(ws, BadFrame)

\* ------------------------------------------------------- specifications
\* Spec: the playback machine of one room. Two sessions and one room id,
\* every kind of frame that changes a room with every song input, the clock
\* standing still.
Next ==
    \/ \E ws \in Sessions : Connect(ws)
    \/ \E ws \in Sessions : BeginClose(ws)
    \/ \E ws \in Sessions : Close(ws)
    \/ \E ws \in Sessions : JoinRoom(ws, {"r1", NoRoomId})
    \/ \E ws \in Sessions : LeaveRoom(ws)
    \/ \E ws \in Sessions : Seek(ws, {None, Some(1)})
    \/ \E ws \in Sessions : SongChange(ws, SongInputs)
    \/ \E ws \in Sessions : ServerPlay(ws, {None, Some(1)})
    \/ \E ws \in Sessions : PlaybackEnded(ws)
    \/ \E ws \in Sessions : AddSong(ws, SongInputs)

Spec == Init /\ [][Next]_vars

\* SpecRooms: the registry. Two sessions and two room ids, so that a session
\* changes rooms and two rooms live side by side; the frames that change the
\* playback state carry one song and one position.
NextRooms ==
    \/ \E ws \in Sessions : Connect(ws)
    \/ \E ws \in Sessions : BeginClose(ws)
    \/ \E ws \in Sessions : Close(ws)
    \/ \E ws \in Sessions : JoinRoom(ws, RoomIds \cup {NoRoomId})
    \/ \E ws \in Sessions : LeaveRoom(ws)
    \/ \E ws \in Sessions : Seek(ws, {Some(1)})
    \/ \E ws \in Sessions : PlaybackEnded(ws)
    \/ \E ws \in Sessions : AddSong(ws, {"s1"})

SpecRooms == Init /\ [][NextRooms]_vars

\* SpecReplies: the replies and the clock. Two sessions and one room id, every
\* kind of frame, the clock moving, one song, positions of either sign.
NextReplies ==
    \/ Tick
    \/ \E ws \in Sessions : Connect(ws)
    \/ \E ws \in Sessions : BeginClose(ws)
    \/ \E ws \in Sessions : Close(ws)
    \/ \E ws \in Sessions : JoinRoom(ws, {"r1", NoRoomId})
    \/ \E ws \in Sessions : LeaveRoom(ws)
    \/ \E ws \in Sessions : Play(ws)
    \/ \E ws \in Sessions : Pause(ws)
    \/ \E ws \in Sessions : Seek(ws, PositionInputs)
    \/ \E ws \in Sessions : SyncRequest(ws)
    \/ \E ws \in Sessions : ServerPlay(ws, PositionInputs)
    \/ \E ws \in Sessions : ClientPause(ws)
    \/ \E ws \in Sessions : ClientResume(ws)
    \/ \E ws \in Sessions : PlaybackEnded(ws)
    \/ \E ws \in Sessions : GetRoomState(ws)
    \/ \E ws \in Sessions : AddSong(ws, {"s1"})
    \/ \E ws \in Sessions : UnknownType(ws)
    \/ \E ws \in Sessions : Malformed(ws)

SpecReplies == Init /\ [][NextReplies]_vars

\* SpecSongs: the songs of one room when every song a client supplies is a
\* song. Two sessions and one room id, every frame that changes the current
\* song or the queue, with either song, the clock standing still.
NextSongs ==
    \/ \E ws \in Sessions : Connect(ws)
    \/ \E ws \in Sessions : Close(ws)
    \/ \E ws \in Sessions : JoinRoom(ws, {"r1"})
    \/ \E ws \in Sessions : LeaveRoom(ws)
    \/ \E ws \in Sessions : Seek(ws, {Some(1)})
    \/ \E ws \in Sessions : SongChange(ws, Songs)
    \/ \E ws \in Sessions : ServerPlay(ws, {None})
    \/ \E ws \in Sessions : PlaybackEnded(ws)
    \/ \E ws \in Sessions : AddSong(ws, Songs)

SpecSongs == Init /\ [][NextSongs]_vars

\* ----------------------------------------------------------------- claims
\* what the last step found: the room of its sender, if it was in one
LastRoomId ==
    IF last.from \in DOMAIN last.clients
    THEN last.clients[last.from].roomId ELSE NoRoomId
LastHadRoom == LastRoomId \in DOMAIN last.rooms
Pre == last.rooms[LastRoomId]
Post == rooms[LastRoomId]
Idle(ps) ==
    /\ ~ps.isPlaying /\ ps.currentSong = NoSong
    /\ ps.position = 0 /\ ps.startTime = None
\* the members of a room whose socket is open
OpenMembers(room) == {s \in room.clients : readyState[s] = "OPEN"}

\* C1: in every room, is_playing implies that start_time and current_song are
\* both set.
C1_PlayingHasStartAndSong ==
    \A r \in DOMAIN rooms :
        rooms[r].playbackState.isPlaying =>
            /\ rooms[r].playbackState.startTime # None
            /\ rooms[r].playbackState.currentSong # NoSong

\* C2: in every room, start_time is none whenever is_playing is false.
C2_NotPlayingHasNoStart ==
    \A r \in DOMAIN rooms :
        ~rooms[r].playbackState.isPlaying =>
            rooms[r].playbackState.startTime = None

\* a seek has just acted on a room that is not playing
C2_Witness ==
    /\ last.kind = "seek" /\ last.msg.position = Some(1)
    /\ LastHadRoom
    /\ ~Post.playbackState.isPlaying
    /\ Post.playbackState.position = 1

\* the last step was the sender leaving the room it had to itself: a
\* leave_room, its socket closing, or a join_room that took it elsewhere
LastMemberLeft ==
    /\ last.kind \in {"leave_room", "close", "join_room"}
    /\ LastHadRoom
    /\ Pre.clients = {last.from}
    /\ last.kind = "join_room" =>
           last.msg.roomId \notin {NoRoomId, LastRoomId}

\* the last step was a join_room of a room id the registry did not hold, or
\* held only for the sender, whom the join detaches first
JoinedAbsentRoom ==
    /\ last.kind = "join_room"
    /\ last.msg.roomId # NoRoomId
    /\ \/ last.msg.roomId \notin DOMAIN last.rooms
       \/ last.rooms[last.msg.roomId].clients = {last.from}

\* C4: once its last member has left or disconnected a room id is absent from
\* the registry, and a join_room of an absent id yields a new room that is
\* Idle with an empty queue, whatever the earlier room of that id held.
C4_NoResurrection ==
    /\ LastMemberLeft => LastRoomId \notin DOMAIN rooms
    /\ JoinedAbsentRoom =>
           /\ last.msg.roomId \in DOMAIN rooms
           /\ Idle(rooms[last.msg.roomId].playbackState)
           /\ rooms[last.msg.roomId].queue = << >>
           /\ rooms[last.msg.roomId].clients = {last.from}

\* the last member of a room that was playing with a song queued has just
\* disconnected
C4_Witness ==
    /\ last.kind = "close"
    /\ LastMemberLeft
    /\ Pre.playbackState.isPlaying
    /\ Pre.queue # << >>
    /\ LastRoomId \notin DOMAIN rooms

\* C5: every room of the registry has a member, and a room id is in the
\* registry exactly when some connected session refers to it.
C5_RoomsHaveMembers ==
    /\ \A r \in DOMAIN rooms : rooms[r].clients # {}
    /\ \A r \in RoomIds :
           r \in DOMAIN rooms <=>
               \E s \in DOMAIN clients : clients[s].roomId = r

\* one of two members has just left a room, which stays, while the other
\* room id is absent
C5_Witness ==
    /\ last.kind = "leave_room"
    /\ LastHadRoom
    /\ Cardinality(Pre.clients) = 2
    /\ DOMAIN rooms = {LastRoomId}
    /\ Cardinality(Post.clients) = 1

\* C6: a session is in the member set of a room exactly when it is connected
\* and its room reference is that room, so it is in at most one member set and
\* a disconnected session is in none.
C6_MemberOfItsRoomOnly ==
    /\ \A s \in Sessions : \A r \in DOMAIN rooms :
           s \in rooms[r].clients <=>
               (s \in DOMAIN clients /\ clients[s].roomId = r)
    /\ \A s \in DOMAIN clients :
           clients[s].roomId # NoRoomId => clients[s].roomId \in DOMAIN rooms

\* a member of a shared room has just joined the other room
C6_Witness ==
    /\ last.kind = "join_room"
    /\ LastHadRoom
    /\ Cardinality(Pre.clients) = 2
    /\ last.msg.roomId \notin {NoRoomId, LastRoomId}
    /\ last.from \in rooms[last.msg.roomId].clients
    /\ LastRoomId \in DOMAIN rooms

\* the last step was a playback_ended from a member of a room
PlaybackEndedActed == last.kind = "playback_ended" /\ LastHadRoom

\* the auto-advance to the song next: the head leaves the queue and becomes
\* current, and every open member gets exactly the new_song_notification
\* carrying it, the others nothing
Advanced(next) ==
    /\ Post.queue = Tail(Pre.queue)
    /\ Post.playbackState.currentSong = next
    /\ Post.playbackState.position = 0
    /\ Post.playbackState.startTime = Some(now)
    /\ Post.playbackState.isPlaying
    /\ Post.playbackState.triggeredBy = Server
    /\ \A s \in Sessions :
           sent[s] = IF s \in OpenMembers(Post)
                     THEN <<[type |-> "new_song_notification", song |-> next,
                             startTime |-> Some(now), serverTime |-> now]>>
                     ELSE << >>

\* C7: playback_ended on a room whose queue is non-empty removes the head of
\* the queue, makes it the current song (position 0, start_time now, playing,
\* triggered by "server") and delivers one new_song_notification carrying it
\* to every open member, the sender included.
C7_EndedAdvancesAndNotifies ==
    (PlaybackEndedActed /\ Pre.queue # << >>) => Advanced(Head(Pre.queue))

\* C7 where the head of the queue is a song: the auto-advance is as claimed
C7_AdvancesWhenHeadIsASong ==
    (PlaybackEndedActed /\ Pre.queue # << >> /\ Head(Pre.queue) # NoSong)
        => Advanced(Head(Pre.queue))

\* C8: playback_ended on a room whose queue is empty leaves the room Idle
\* (not playing, no current song, position 0, no start_time) and sends nothing
\* to any session.
C8_EndedOnEmptyQueueIsQuiet ==
    (PlaybackEndedActed /\ Pre.queue = << >>) =>
        /\ Idle(Post.playbackState)
        /\ Post.queue = << >>
        /\ sent = NoSent

\* the song of a playing room with two open members and nothing queued has
\* just ended
C8_Witness ==
    /\ PlaybackEndedActed
    /\ Pre.queue = << >>
    /\ Pre.playbackState.isPlaying
    /\ Pre.playbackState.currentSong \in Songs
    /\ OpenMembers(Pre) = Sessions
    /\ Idle(Post.playbackState)

\* the last step was an add_song carrying a song, from a member of a room
AddSongActed ==
    /\ last.kind = "add_song" /\ LastHadRoom
    /\ last.msg.song # NoSong

\* C9: add_song on a room with no current song, whatever setAsCurrent says,
\* makes the song current (position 0, start_time now, playing), leaves the
\* queue as it was, and delivers new_song_notification with wasIdle:true to
\* every open member of the room and to nobody else.
C9_AddOnIdlePromotes ==
    (AddSongActed /\ Pre.playbackState.currentSong = NoSong) =>
        /\ Post.playbackState.currentSong = last.msg.song
        /\ Post.playbackState.position = 0
        /\ Post.playbackState.startTime = Some(now)
        /\ Post.playbackState.isPlaying
        /\ Post.queue = Pre.queue
        /\ \A s \in Sessions :
               /\ s \in OpenMembers(Post) =>
                      /\ Len(sent[s]) >= 1
                      /\ sent[s][1] =
                             [type |-> "new_song_notification",
                              song |-> last.msg.song,
                              startTime |-> Some(now), serverTime |-> now,
                              wasIdle |-> TRUE]
                      /\ \A i \in 2..Len(sent[s]) :
                             sent[s][i].type # "new_song_notification"
               /\ s \notin OpenMembers(Post) => sent[s] = << >>

\* a song has just been added without setAsCurrent to an Idle room with two
\* open members
C9_Witness ==
    /\ AddSongActed
    /\ ~last.msg.setAsCurrent
    /\ Idle(Pre.playbackState)
    /\ OpenMembers(Pre) = Sessions
    /\ Post.playbackState.currentSong = last.msg.song

\* C10: add_song with setAsCurrent false on a room that has a current song
\* appends the song to the tail of the queue, changes no field of the playback
\* state, broadcasts nothing, and answers the sender alone with a
\* song_added_response: success, setAsCurrent false, queueLength the length of
\* the queue after the append.
C10_AddQueuesAtTail ==
    (AddSongActed /\ ~last.msg.setAsCurrent
                  /\ Pre.playbackState.currentSong # NoSong) =>
        /\ Post.queue = Append(Pre.queue, last.msg.song)
        /\ Post.playbackState = Pre.playbackState
        /\ \A s \in Sessions :
               sent[s] = IF s = last.from
                         THEN <<[type |-> "song_added_response",
                                 success |-> TRUE, song |-> last.msg.song,
                                 setAsCurrent |-> FALSE,
                                 queueLength |-> Len(Pre.queue) + 1]>>
                         ELSE << >>

\* a second, different song has just been queued behind the first in a room
\* with two open members
C10_Witness ==
    /\ AddSongActed /\ ~last.msg.setAsCurrent
    /\ Pre.playbackState.currentSong # NoSong
    /\ Len(Pre.queue) = 1 /\ Pre.queue[1] \in Songs \ {last.msg.song}
    /\ OpenMembers(Pre) = Sessions
    /\ Post.queue = <<Pre.queue[1], last.msg.song>>

\* the messages of a type among those the last step wrote to a session
SentOfType(s, type) ==
    {i \in 1..Len(sent[s]) : sent[s][i].type = type}

\* C11: add_song with setAsCurrent true on a Playing room makes the song
\* current (position 0, start_time now, playing) and delivers a
\* new_song_notification carrying it to every open member of the room.
C11_ReplaceCurrentAndNotify ==
    (AddSongActed /\ last.msg.setAsCurrent
                  /\ Pre.playbackState.isPlaying
                  /\ Pre.playbackState.currentSong # NoSong) =>
        /\ Post.playbackState.currentSong = last.msg.song
        /\ Post.playbackState.position = 0
        /\ Post.playbackState.startTime = Some(now)
        /\ Post.playbackState.isPlaying
        /\ \A s \in OpenMembers(Post) :
               \E i \in SentOfType(s, "new_song_notification") :
                   sent[s][i].song = last.msg.song

\* C11 without the broadcast: the state is overwritten as claimed
C11_ReplacesCurrent ==
    (AddSongActed /\ last.msg.setAsCurrent
                  /\ Pre.playbackState.isPlaying
                  /\ Pre.playbackState.currentSong # NoSong) =>
        /\ Post.playbackState.currentSong = last.msg.song
        /\ Post.playbackState.position = 0
        /\ Post.playbackState.startTime = Some(now)
        /\ Post.playbackState.isPlaying
        /\ Post.queue = Pre.queue

\* the song_added_response the last step wrote to its sender
Response == sent[last.from][Len(sent[last.from])]

\* C12: the song_added_response reports setAsCurrent true exactly when the
\* song was made current rather than queued; for a song promoted because the
\* room had no current song it reports setAsCurrent true and the length of
\* the queue, which is 0 when nothing was queued.
C12_ResponseTellsWhetherCurrent ==
    AddSongActed =>
        /\ Len(sent[last.from]) >= 1
        /\ Response.type = "song_added_response"
        /\ Response.setAsCurrent =
               (Post.playbackState.currentSong = last.msg.song
                /\ Post.queue = Pre.queue)
        /\ Response.queueLength = Len(Post.queue)
        /\ (Pre.playbackState.currentSong = NoSong /\ Pre.queue = << >>) =>
               (Response.setAsCurrent /\ Response.queueLength = 0)

\* C12 as the code has it: the response is always sent, with the length of
\* the queue, and with the setAsCurrent of the request
C12_ResponseEchoesRequest ==
    AddSongActed =>
        /\ Len(sent[last.from]) >= 1
        /\ Response.type = "song_added_response"
        /\ Response.setAsCurrent = last.msg.setAsCurrent
        /\ Response.queueLength = Len(Post.queue)

\* what the last step did to the queue of room r: nothing, or an add_song of
\* its member appended the song at the tail, or a playback_ended of its member
\* removed the head, which became the current song
QueueStep(r) ==
    LET old == last.rooms[r].queue
        new == rooms[r].queue
    IN \/ new = old
       \/ /\ last.kind = "add_song" /\ r = LastRoomId
          /\ new = Append(old, last.msg.song)
       \/ /\ last.kind = "playback_ended" /\ r = LastRoomId
          /\ old # << >>
          /\ new = Tail(old)
          /\ rooms[r].playbackState.currentSong = Head(old)

\* the last step was a join_room of room r by its only member: the join
\* detaches the sender first, which destroys r, and creates r anew
Recreated(r) ==
    /\ last.kind = "join_room"
    /\ last.msg.roomId = r
    /\ last.rooms[r].clients = {last.from}

\* C13: the queue of a room is first-in first-out: a step leaves it as it
\* was unless it is an add_song, which appends at the tail, or a
\* playback_ended, which removes the head and makes it the current song; no
\* other message changes the queue of a room.
C13_QueueIsFifo ==
    \A r \in DOMAIN last.rooms \cap DOMAIN rooms : QueueStep(r)

\* C13 over the life of a room in the registry, from its creation to its
\* destruction
C13_QueueIsFifoWhileRoomLives ==
    \A r \in DOMAIN last.rooms \cap DOMAIN rooms :
        ~Recreated(r) => QueueStep(r)

\* the only member of a room with a queued song has just sent join_room with
\* the id of that room, and the queue is empty
C13_QueueLostOnRejoin ==
    /\ LastHadRoom /\ Recreated(LastRoomId)
    /\ Pre.queue # << >>
    /\ Post.queue = << >>

\* the last step was a seek from a member of a room
SeekActed == last.kind = "seek" /\ LastHadRoom

\* message.position || 0 of the last frame
LastPosition == OrZero(last.msg.position)

\* C14: seek(p) sets position to p and leaves is_playing and current_song as
\* they were; start_time becomes now - p*1000 if the room is playing and none
\* otherwise; every open member of the room, the sender included, gets one
\* seek_sync with the position, the unchanged isPlaying, the startTime and
\* triggeredBy the sender, and nobody else gets anything.
C14_SeekSetsPositionAndSyncs ==
    SeekActed =>
        /\ Post.playbackState.position = LastPosition
        /\ Post.playbackState.isPlaying = Pre.playbackState.isPlaying
        /\ Post.playbackState.currentSong = Pre.playbackState.currentSong
        /\ Post.playbackState.startTime =
               IF Pre.playbackState.isPlaying
               THEN Some(now - LastPosition * MsPerSec) ELSE None
        /\ \A s \in Sessions :
               sent[s] = IF s \in OpenMembers(Post)
                         THEN <<[type |-> "seek_sync",
                                 position |-> LastPosition,
                                 isPlaying |-> Pre.playbackState.isPlaying,
                                 serverTime |-> now,
                                 startTime |-> Post.playbackState.startTime,
                                 triggeredBy |-> last.from]>>
                         ELSE << >>

\* a member has just sought to 1 s in a playing room with two open members,
\* some time after the song started
C14_Witness ==
    /\ SeekActed
    /\ last.msg.position = Some(1)
    /\ Pre.playbackState.isPlaying
    /\ Pre.playbackState.currentSong \in Songs
    /\ Pre.playbackState.lastUpdated < now
    /\ OpenMembers(Pre) = Sessions
    /\ Post.playbackState.startTime = Some(now - MsPerSec)
    /\ Len(sent[last.from]) = 1

\* C15: a seek(p) on a Playing room whose position is already p, as a seek(p)
\* before it left it, gives position p and start_time now - p*1000 again and
\* changes no field of the playback state other than start_time, last_updated
\* and triggered_by.
C15_SeekTwiceIsSeekOnce ==
    (SeekActed /\ Pre.playbackState.isPlaying
               /\ Pre.playbackState.position = LastPosition) =>
        Post.playbackState =
            [Pre.playbackState EXCEPT
                !.startTime = Some(now - LastPosition * MsPerSec),
                !.lastUpdated = now,
                !.triggeredBy = last.from]

\* a playing room was left by a seek to 1 s, start_time 1 s before that seek,
\* and after the clock moved on its other member has just sought to 1 s again
C15_Witness ==
    /\ SeekActed
    /\ last.msg.position = Some(1)
    /\ Pre.playbackState.isPlaying
    /\ Pre.playbackState.position = 1
    /\ Pre.playbackState.songId = Undefined
    /\ Pre.playbackState.triggeredBy \in Sessions \ {last.from}
    /\ Pre.playbackState.startTime =
           Some(Pre.playbackState.lastUpdated - MsPerSec)
    /\ Pre.playbackState.lastUpdated < now
    /\ Post.playbackState.startTime = Some(now - MsPerSec)
    /\ Post.playbackState.position = 1

\* the last step was a server_play from a member of a room
ServerPlayActed == last.kind = "server_play" /\ LastHadRoom

\* C16: server_play(p, songId) from a member sets is_playing, position p,
\* start_time now - p*1000, song_id songId and triggered_by the sender, leaves
\* current_song and the queue as they were, and delivers one server_play_sync
\* to every open member of the room, the originator included, and nothing to
\* anybody else.
C16_ServerPlaySetsAndSyncs ==
    ServerPlayActed =>
        /\ Post.playbackState =
               [Pre.playbackState EXCEPT
                   !.isPlaying = TRUE,
                   !.position = LastPosition,
                   !.startTime = Some(now - LastPosition * MsPerSec),
                   !.lastUpdated = now,
                   !.songId = last.msg.songId,
                   !.triggeredBy = last.from]
        /\ Post.queue = Pre.queue
        /\ Post.clients = Pre.clients
        /\ \A s \in Sessions :
               sent[s] = IF s \in OpenMembers(Post)
                         THEN <<[type |-> "server_play_sync",
                                 position |-> LastPosition,
                                 serverTime |-> now,
                                 startTime |->
                                     Some(now - LastPosition * MsPerSec),
                                 songId |-> last.msg.songId,
                                 triggeredBy |-> last.from]>>
                         ELSE << >>

\* a member has just sent its first server_play, at 1 s, to a room with two
\* open members, a current song at 0 s and a song in the queue
C16_Witness ==
    /\ ServerPlayActed
    /\ last.msg.position = Some(1)
    /\ Pre.playbackState.position = 0
    /\ Pre.playbackState.songId = Undefined
    /\ Pre.playbackState.currentSong \in Songs
    /\ Pre.queue # << >>
    /\ OpenMembers(Pre) = Sessions
    /\ Post.playbackState.isPlaying
    /\ Post.playbackState.startTime = Some(now - MsPerSec)

\* the messages that carry a position in seconds, and those that carry the
\* derived position
PositionTypes == {"seek_sync", "server_play_sync"}
DerivedTypes == {"server_state_sync", "sync_response", "room_state_response"}

\* C17: a negative position in a seek or server_play is clamped to 0 on use:
\* the stored position of a room is never negative, its start_time is never
\* later than the time of the mutation that set it, and no seek_sync,
\* server_play_sync, server_state_sync, sync_response or room_state_response
\* carries a negative position.
C17_NegativePositionClamped ==
    /\ \A r \in DOMAIN rooms :
           /\ rooms[r].playbackState.position >= 0
           /\ rooms[r].playbackState.startTime # None =>
                  rooms[r].playbackState.startTime[1]
                      <= rooms[r].playbackState.lastUpdated
    /\ \A s \in Sessions : \A i \in 1..Len(sent[s]) :
           /\ sent[s][i].type \in PositionTypes => sent[s][i].position >= 0
           /\ sent[s][i].type \in DerivedTypes => sent[s][i].positionMs >= 0

\* C17 for the one reply that clamps: room_state_response never carries a
\* negative position
C17_RoomStateResponseClamped ==
    \A s \in Sessions : \A i \in SentOfType(s, "room_state_response") :
        sent[s][i].positionMs >= 0

\* the derived position of a playback state at the present time, in ms
DerivedMs(ps) ==
    IF ps.isPlaying /\ ps.startTime # None
    THEN Max(0, now - ps.startTime[1])
    ELSE ps.position * MsPerSec

\* C18: the position in a server_state_sync, sync_response or
\* room_state_response is the derived position of the room of its receiver at
\* the time of the reply: max(0, (now - start_time)/1000) when the room is
\* playing, the stored position when it is not; so the three replies report
\* the same position for the same room state at the same time.
C18_RepliesReportDerivedPosition ==
    \A s \in Sessions : \A i \in 1..Len(sent[s]) :
        sent[s][i].type \in DerivedTypes =>
            /\ s \in DOMAIN clients
            /\ clients[s].roomId \in DOMAIN rooms
            /\ sent[s][i].positionMs =
                   DerivedMs(rooms[clients[s].roomId].playbackState)

\* a member has just asked for the state of a room that is not playing at
\* position 1 s, and the room_state_response reports position 0
C18_StoppedRoomReportedAtZero ==
    /\ last.kind = "get_room_state" /\ LastHadRoom
    /\ ~Pre.playbackState.isPlaying
    /\ Pre.playbackState.position = 1
    /\ Len(sent[last.from]) = 1
    /\ sent[last.from][1].type = "room_state_response"
    /\ sent[last.from][1].positionMs = 0

JoinActed == last.kind = "join_room" /\ last.msg.roomId # NoRoomId

\* C20: join_room(R) makes the sender a member of R and of no other room, R
\* being created if it was absent; the joiner gets room_joined, with
\* clientCount the number of members of R the joiner included, and then
\* server_state_sync, and no client_joined; every other open member of R
\* gets one client_joined naming the joiner with the same clientCount, and
\* nobody else gets a client_joined.
C20_JoinAttachesAndAnnounces ==
    JoinActed =>
        LET R == last.msg.roomId
            joiner == last.from
        IN /\ R \in DOMAIN rooms
           /\ clients[joiner].roomId = R
           /\ \A r \in DOMAIN rooms : joiner \in rooms[r].clients <=> r = R
           /\ R \notin DOMAIN last.rooms =>
                  rooms[R] = [NewRoom(R, now) EXCEPT !.clients = {joiner}]
           /\ readyState[joiner] = "OPEN" =>
                  /\ Len(sent[joiner]) = 2
                  /\ sent[joiner][1] =
                         [type |-> "room_joined", roomId |-> R,
                          playbackState |-> rooms[R].playbackState,
                          clientCount |-> Cardinality(rooms[R].clients)]
                  /\ sent[joiner][2].type = "server_state_sync"
                  /\ sent[joiner][2].playbackState = rooms[R].playbackState
           /\ \A s \in Sessions :
                  IF s \in OpenMembers(rooms[R]) \ {joiner}
                  THEN /\ Cardinality(SentOfType(s, "client_joined")) = 1
                       /\ sent[s][Len(sent[s])] =
                              [type |-> "client_joined", clientId |-> joiner,
                               clientCount |->
                                   Cardinality(rooms[R].clients)]
                  ELSE SentOfType(s, "client_joined") = {}

\* a member of one room has just joined the other room, which had one open
\* member: the room it left is gone, it got its two replies and the member of
\* the room it joined got client_joined with clientCount 2
C20_Witness ==
    /\ JoinActed
    /\ LastHadRoom
    /\ LastRoomId # last.msg.roomId
    /\ last.msg.roomId \in DOMAIN last.rooms
    /\ LastRoomId \notin DOMAIN rooms
    /\ rooms[last.msg.roomId].clients = Sessions
    /\ OpenMembers(rooms[last.msg.roomId]) = Sessions
    /\ Len(sent[last.from]) = 2
    /\ \A s \in Sessions \ {last.from} :
           /\ Len(sent[s]) = 1
           /\ sent[s][1].type = "client_joined"
           /\ sent[s][1].clientCount = 2

\* the last step was a leave_room, or the socket closing, of a session
LeaveOrClose == last.kind \in {"leave_room", "close"}

\* the members of the room of the sender that stay when it leaves
Remaining == Pre.clients \ {last.from}

\* C21: when a member of room R closes or sends leave_room it is removed from
\* R, every remaining open member gets exactly one client_left with the id of
\* the leaver and clientCount the number of remaining members, the leaver and
\* everybody else get nothing, R is removed from the registry if no member
\* remains and is otherwise as it was; a session that is in no room is not
\* removed again: nothing is sent and no room changes.
C21_LeaveRemovesOnceAndTells ==
    LeaveOrClose =>
        IF LastHadRoom
        THEN /\ last.from \in Pre.clients
             /\ IF Remaining = {}
                THEN LastRoomId \notin DOMAIN rooms
                ELSE /\ LastRoomId \in DOMAIN rooms
                     /\ Post = [Pre EXCEPT !.clients = Remaining]
             /\ \A s \in Sessions :
                    sent[s] = IF s \in Remaining /\ readyState[s] = "OPEN"
                              THEN <<[type |-> "client_left",
                                      clientId |-> last.from,
                                      clientCount |-> Cardinality(Remaining)]>>
                              ELSE << >>
             /\ last.from \in DOMAIN clients =>
                    clients[last.from].roomId = NoRoomId
        ELSE /\ sent = NoSent
             /\ rooms = last.rooms

\* the socket of one of the two open members of a room has just closed: the
\* other is the only member and got client_left with clientCount 1
C21_Witness ==
    /\ last.kind = "close"
    /\ LastHadRoom
    /\ Pre.clients = Sessions
    /\ Post.clients = Sessions \ {last.from}
    /\ \A s \in Sessions \ {last.from} :
           /\ Len(sent[s]) = 1
           /\ sent[s][1].type = "client_left"
           /\ sent[s][1].clientCount = 1
    /\ sent[last.from] = << >>

\* the last step was a join_room, a leave_room or the socket closing
MembershipStep == last.kind \in {"join_room", "leave_room", "close"}

\* room r has the playback state and the queue it had before the last step
PlaybackKept(r) ==
    /\ rooms[r].playbackState = last.rooms[r].playbackState
    /\ rooms[r].queue = last.rooms[r].queue

\* C22: join_room, leave_room and disconnect never change the playback state
\* or the queue of a room; so a session that joins R, leaves and joins R again
\* is a member of R with the playback state R had before the re-join.
C22_MembershipKeepsPlayback ==
    MembershipStep =>
        \A r \in DOMAIN last.rooms \cap DOMAIN rooms : PlaybackKept(r)

\* C22 over the life of a room in the registry, from its creation to its
\* destruction
C22_MembershipKeepsPlaybackWhileRoomLives ==
    MembershipStep =>
        \A r \in DOMAIN last.rooms \cap DOMAIN rooms :
            ~Recreated(r) => PlaybackKept(r)

\* a session that was in no room has just joined a playing room that another
\* session kept alive, and the playback state is as it was
C22_RejoinKeepsState ==
    /\ JoinActed /\ ~LastHadRoom
    /\ last.msg.roomId \in DOMAIN last.rooms
    /\ last.rooms[last.msg.roomId].playbackState.isPlaying
    /\ last.from \in rooms[last.msg.roomId].clients
    /\ PlaybackKept(last.msg.roomId)

\* the only member of a playing room has just sent join_room with the id of
\* that room, and the room is Idle
C22_PlaybackLostOnRejoin ==
    /\ LastHadRoom /\ Recreated(LastRoomId)
    /\ Pre.playbackState.isPlaying
    /\ Idle(Post.playbackState)

\* the kinds that only ask, and the type of the reply to each
AskingKinds ==
    {"play", "pause", "client_pause", "client_resume", "get_room_state",
     "sync_request"}
ReplyType(kind) ==
    CASE kind \in {"play", "pause", "client_resume"} -> "server_state_sync"
      [] kind = "client_pause" -> "client_pause_ack"
      [] kind = "get_room_state" -> "room_state_response"
      [] kind = "sync_request" -> "sync_response"

RecognizedKinds ==
    AskingKinds \cup
    {"join_room", "leave_room", "seek", "song_change", "server_play",
     "playback_ended", "add_song"}

\* the last step was a frame of a recognized kind other than join_room from a
\* session that was in no room
RoomlessActed ==
    /\ last.kind \in RecognizedKinds \ {"join_room"}
    /\ LastRoomId = NoRoomId

\* C24: a message of a recognized kind other than join_room from a session
\* that is in no room is silently ignored: no room and no membership changes
\* and no message of any type is sent to any session.
C24_RoomlessIsIgnored ==
    RoomlessActed =>
        /\ rooms = last.rooms
        /\ clients = last.clients
        /\ sent = NoSent

\* C24 for every kind but client_pause
C24_RoomlessIsIgnoredButClientPause ==
    (RoomlessActed /\ last.kind # "client_pause") =>
        /\ rooms = last.rooms
        /\ clients = last.clients
        /\ sent = NoSent

\* a session that is in no room has just sent client_pause and got a
\* client_pause_ack
C24_RoomlessPauseAcknowledged ==
    /\ RoomlessActed
    /\ last.kind = "client_pause"
    /\ sent[last.from] =
           <<[type |-> "client_pause_ack", clientId |-> last.from,
              timestamp |-> now]>>

\* the last step answered its sender with an error
ErrorSent == SentOfType(last.from, "error") # {}

\* C25: a frame whose handling ends in an error to its sender (a malformed
\* frame, a missing field such as add_song without song or join_room without
\* roomId, an unknown type) leaves every room and every membership as before
\* the frame, sends nothing to any other session, and leaves the sender
\* connected.
C25_ErrorChangesNothing ==
    (last.from \in Sessions /\ ErrorSent) =>
        /\ rooms = last.rooms
        /\ clients = last.clients
        /\ \A s \in Sessions \ {last.from} : sent[s] = << >>
        /\ last.from \in DOMAIN clients
        /\ readyState[last.from] = "OPEN"

\* C25 for the errors the server sends itself, not those of its catch: no
\* state changes
C25_ErrorWithoutThrowChangesNothing ==
    (last.from \in Sessions /\ ErrorSent /\ ~last.threw) =>
        /\ rooms = last.rooms
        /\ clients = last.clients
        /\ \A s \in Sessions \ {last.from} : sent[s] = << >>

\* a member of an Idle room has just sent add_song without a song: it got an
\* error, and the room is playing with no current song
C25_FailedAddSongChangedRoom ==
    /\ last.kind = "add_song" /\ LastHadRoom
    /\ last.msg.song = NoSong
    /\ ErrorSent
    /\ Idle(Pre.playbackState)
    /\ Post.playbackState.isPlaying
    /\ Post.playbackState.currentSong = NoSong

\* the last step was a join_room without a room id
JoinWithoutId == last.kind = "join_room" /\ last.msg.roomId = NoRoomId

\* C26: join_room without a roomId sends one error to the sender and does
\* nothing else: the sender stays in the room it was in, no room is created,
\* destroyed or changed, and no other message, client_left and client_joined
\* included, is sent to anybody.
C26_JoinWithoutIdOnlyErrors ==
    JoinWithoutId =>
        /\ rooms = last.rooms
        /\ clients = last.clients
        /\ sent = [NoSent EXCEPT ![last.from] =
                      <<[type |-> "error", message |-> "Room ID is required",
                         timestamp |-> now]>>]

\* a member of a room with two open members has just sent join_room without
\* a room id: it is still a member and the other member got nothing
C26_Witness ==
    /\ JoinWithoutId
    /\ LastHadRoom
    /\ OpenMembers(Pre) = Sessions
    /\ Post.clients = Sessions
    /\ clients[last.from].roomId = LastRoomId
    /\ Len(sent[last.from]) = 1
    /\ sent[last.from][1].type = "error"

\* the last step was a frame of no recognized type, or one that is not JSON
Unrecognized == last.kind \in UnknownTypes
NotJson == last.kind = "bad_frame"

\* C27: a frame whose type is not a recognized kind gets exactly one error,
\* "Unknown message type: <t>", and a frame that is not valid JSON gets
\* exactly one error; nothing else is sent, the session stays connected and
\* open where it was, and a later frame from it is handled.
C27_BadFrameGetsOneError ==
    (Unrecognized \/ NotJson) =>
        /\ sent = [NoSent EXCEPT ![last.from] =
                      <<[type |-> "error",
                         message |->
                             IF NotJson THEN "Invalid message format"
                             ELSE "Unknown message type: " \o last.kind,
                         timestamp |-> now]>>]
        /\ rooms = last.rooms
        /\ clients = last.clients
        /\ last.from \in DOMAIN clients
        /\ readyState[last.from] = "OPEN"
        /\ ENABLED JoinRoom(last.from, {"r1"})

\* a member of a playing room has just sent a frame that is not JSON and got
\* the one error; it is still a member
C27_Witness ==
    /\ NotJson
    /\ LastHadRoom
    /\ Pre.playbackState.isPlaying
    /\ last.from \in Post.clients
    /\ Len(sent[last.from]) = 1
    /\ sent[last.from][1].message = "Invalid message format"

\* a session has just sent a frame of type "bogus" and got the error that
\* names the type
C27_UnknownTypeNamed ==
    /\ last.kind = "bogus"
    /\ sent[last.from][1].message = "Unknown message type: bogus"

\* a message to broadcast, and the sessions a broadcast may exclude
Probe == [type |-> "probe"]
Excludable == Sessions \cup {NoWs}

\* C28: a broadcast to a room delivers the message exactly once to every
\* member of the room that is open and is not the excluded session, and to
\* nobody else: not to the excluded session, not to a non-member, not to a
\* member that is closed or closing, whose presence keeps it from no other
\* member; it changes no room and no membership. So it is with the
\* seek_sync of the last step.
C28_BroadcastReachesOpenMembersOnce ==
    /\ \A roomId \in RoomIds : \A excludeWs \in Excludable :
           LET done == broadcastToRoom(Before, roomId, Probe, excludeWs)
           IN /\ done.rooms = rooms
              /\ done.clients = clients
              /\ \A s \in Sessions :
                     done.sent[s] =
                         IF /\ roomId \in DOMAIN rooms
                            /\ s \in rooms[roomId].clients
                            /\ s # excludeWs
                            /\ readyState[s] = "OPEN"
                         THEN <<Probe>> ELSE << >>
    /\ SeekActed =>
           \A s \in Sessions :
               Cardinality(SentOfType(s, "seek_sync")) =
                   IF s \in OpenMembers(Post) THEN 1 ELSE 0

\* a member of a room has just sought while the other member of the room was
\* closing: the sender got the seek_sync, the closing member nothing
C28_Witness ==
    /\ SeekActed
    /\ Post.clients = Sessions
    /\ \E s \in Sessions \ {last.from} :
           /\ readyState[s] = "CLOSING"
           /\ sent[s] = << >>
    /\ Len(sent[last.from]) = 1
    /\ sent[last.from][1].type = "seek_sync"

\* the kinds whose handling broadcasts to the room, the sender included, and
\* the type of the broadcast of each
BroadcastingKinds == {"server_play", "seek", "song_change"}
SyncType(kind) ==
    CASE kind = "server_play" -> "server_play_sync"
      [] kind = "seek" -> "seek_sync"
      [] kind = "song_change" -> "song_change_sync"

\* the broadcast m answers the last frame: it has its type, names its sender
\* as the origin, is stamped with the time of the step and carries what the
\* frame carried
Answers(m) ==
    /\ m.type = SyncType(last.kind)
    /\ m.triggeredBy = last.from
    /\ m.serverTime = now
    /\ IF last.kind = "song_change" THEN m.song = last.msg.song
       ELSE m.position = LastPosition

RoomAt(reg, r) == IF r \in DOMAIN reg THEN {reg[r]} ELSE {}

\* the last step changed, created or destroyed the room of id r
Changed(r) == RoomAt(rooms, r) # RoomAt(last.rooms, r)

\* the sessions that were members of r before the last step or are after it,
\* the sender of the step aside
OtherMembers(r) ==
    (UNION {room.clients : room \in RoomAt(last.rooms, r)}
        \cup UNION {room.clients : room \in RoomAt(rooms, r)}) \ {last.from}

\* the last step was a join_room that took a member of one room to another
Moved ==
    /\ JoinActed /\ LastHadRoom
    /\ last.msg.roomId # LastRoomId

IsIdle(ps) == ~ps.isPlaying /\ ps.currentSong = NoSong
IsArmed(ps) == ~ps.isPlaying /\ ps.currentSong # NoSong
IsPlaying(ps) == ps.isPlaying /\ ps.currentSong # NoSong

\* C32: every room is Idle (not playing, no song), Armed (not playing, a
\* song) or Playing (playing, a song); a room is Armed only if it was Armed
\* before the last step or the step was a seek on a song that was not
\* playing, and no step takes a room from Idle to Armed.
C32_IdleArmedOrPlaying ==
    \A r \in DOMAIN rooms :
        /\ \/ IsIdle(rooms[r].playbackState)
           \/ IsArmed(rooms[r].playbackState)
           \/ IsPlaying(rooms[r].playbackState)
        /\ IsArmed(rooms[r].playbackState) =>
               /\ r \in DOMAIN last.rooms
               /\ IsArmed(last.rooms[r].playbackState)

\* C32 without the first part: no room is ever Armed, since no handler
\* clears isPlaying and keeps the current song
C32_NeverArmed ==
    \A r \in DOMAIN rooms : ~IsArmed(rooms[r].playbackState)

\* a member of an Idle room has just sent server_play: the room is playing
\* and has no current song
C32_PlayingWithoutSong ==
    /\ ServerPlayActed
    /\ IsIdle(Pre.playbackState)
    /\ Post.playbackState.isPlaying
    /\ Post.playbackState.currentSong = NoSong

\* the last step was a join_room of the room its sender was a member of
Rejoined ==
    /\ JoinActed /\ LastHadRoom
    /\ last.msg.roomId = LastRoomId

\* C33: join_room(R) from a session that is already a member of R leaves the
\* playback state and the queue of R as they were, and the session a member
\* of R, also when the session is the only member of R.
C33_RejoinKeepsRoom ==
    Rejoined =>
        /\ LastRoomId \in DOMAIN rooms
        /\ last.from \in Post.clients
        /\ Post.playbackState = Pre.playbackState
        /\ Post.queue = Pre.queue

\* C33 where another member keeps the room alive while the sender is out
C33_RejoinInCompanyKeepsRoom ==
    (Rejoined /\ Pre.clients # {last.from}) =>
        /\ LastRoomId \in DOMAIN rooms
        /\ Post = Pre

\* the only member of a playing room with a queued song has just sent
\* join_room with the id of that room: the room is Idle, its queue empty and
\* its last_updated that of a new room
C33_RoomReplacedOnRejoin ==
    /\ Rejoined
    /\ Pre.clients = {last.from}
    /\ Pre.playbackState.isPlaying
    /\ Pre.queue # << >>
    /\ Post = [NewRoom(LastRoomId, now) EXCEPT !.clients = {last.from}]

\* the current song of the room of the sender was started by an auto-advance
\* at this very time: it cannot have ended, so a playback_ended that arrives
\* now was sent while the song before it was current
JustAdvanced ==
    /\ Pre.playbackState.isPlaying
    /\ Pre.playbackState.triggeredBy = Server
    /\ Pre.playbackState.startTime = Some(now)

\* C34: the end of one song advances the room by at most one queue entry: a
\* playback_ended that was sent while the song before the current one was
\* current, as the second of two members reporting the same end, removes no
\* song from the queue and leaves the current song.
C34_OneAdvancePerEnd ==
    (PlaybackEndedActed /\ JustAdvanced) =>
        /\ Post.queue = Pre.queue
        /\ Post.playbackState.currentSong = Pre.playbackState.currentSong

\* in a room with two open members a song was made current by an
\* auto-advance, and a second playback_ended at the same time has removed the
\* song behind it from the queue and made it current
C34_SongSkipped ==
    /\ PlaybackEndedActed /\ JustAdvanced
    /\ OpenMembers(Pre) = Sessions
    /\ Len(Pre.queue) = 1
    /\ Post.queue = << >>
    /\ Post.playbackState.currentSong = Pre.queue[1]
    /\ Post.playbackState.isPlaying

\* C35: every song that clients supply being a song, a room that has no
\* current song has an empty queue: a song is queued only while another song
\* is current, and the room becomes Idle only when the queue is empty.
C35_NoSongNoQueue ==
    \A r \in DOMAIN rooms :
        rooms[r].playbackState.currentSong = NoSong => rooms[r].queue = << >>

\* a song that came from the queue has just ended with nothing behind it, and
\* the room has no current song and an empty queue
C35_Witness ==
    /\ PlaybackEndedActed
    /\ Pre.playbackState.currentSong \in Songs
    /\ Pre.playbackState.triggeredBy = Server
    /\ Pre.queue = << >>
    /\ Post.playbackState.currentSong = NoSong
    /\ Post.queue = << >>

\* ------------------------------------------------------------- shutdown
\* process.on("SIGINT"): server.wss.close(callback). Which ws the build
\* installs is not pinned: its close() either terminates every client, whose
\* close events follow, or leaves the connections as they are.
Sigint ==
    /\ hub = "running"
    /\ hub' = "closing"
    /\ \E terminates \in BOOLEAN :
          readyState' = [s \in Sessions |->
                            IF terminates /\ readyState[s] = "OPEN"
                            THEN "CLOSING" ELSE readyState[s]]
    /\ sent' = NoSent
    /\ last' = Step("sigint", NoWs, [type |-> "sigint"], Before)
    /\ UNCHANGED <<rooms, clients, now, beside>>

\* the callback of wss.close(), once no connection is left: process.exit(0)
Exit ==
    /\ hub = "closing"
    /\ DOMAIN clients = {}
    /\ hub' = "exited"
    /\ sent' = NoSent
    /\ last' = Step("exit", NoWs, [type |-> "exit"], Before)
    /\ UNCHANGED <<rooms, clients, readyState, now, beside>>

\* the hub with its signal handler, sessions coming, joining and going
NextShutdown ==
    \/ \E ws \in Sessions : Connect(ws)
    \/ \E ws \in Sessions : BeginClose(ws)
    \/ \E ws \in Sessions : Close(ws)
    \/ \E ws \in Sessions : JoinRoom(ws, RoomIds)
    \/ \E ws \in Sessions : LeaveRoom(ws)
    \/ \E ws \in Sessions : Seek(ws, {Some(1)})
    \/ Sigint
    \/ Exit

SpecShutdown == Init /\ [][NextShutdown]_vars

\* C31: on a termination signal the hub closes every open session: once the
\* signal handler has run, no session is left open.
C31_SignalClosesSessions ==
    hub # "running" => \A ws \in Sessions : readyState[ws] # "OPEN"

\* the half of C31 the handler does keep: no session is accepted after the
\* signal, and the process exits only with every session gone
C31_NoSessionAfterSignal ==
    /\ ~(hub # "running" /\ last.kind = "connection")
    /\ hub = "exited" => (DOMAIN clients = {} /\ DOMAIN rooms = {})

\* ------------------------------------------- the library and its events
\* the application calls connect()
AppConnect ==
    /\ Unused(lib) # {}
    /\ lib.calls < MaxCalls
    /\ lib' = [connect(Called(lib, "connect")) EXCEPT !.disconnected = FALSE]
    /\ UNCHANGED <<server, subs>>

\* the application calls joinRoom(roomId)
AppJoinRoom ==
    /\ Unused(lib) # {}
    /\ lib.calls < MaxCalls
    /\ lib' = [joinRoom(Called(lib, "joinRoom")) EXCEPT !.disconnected = FALSE]
    /\ UNCHANGED <<server, subs>>

\* the application calls disconnect()
AppDisconnect ==
    /\ lib.calls < MaxCalls
    /\ lib' = [disconnect(Called(lib, "disconnect")) EXCEPT !.disconnected = TRUE]
    /\ UNCHANGED <<server, subs>>

\* window "online"
Online ==
    /\ Unused(lib) # {}
    /\ lib.calls < MaxCalls
    /\ lib' = reconnect(Called(lib, "online"))
    /\ UNCHANGED <<server, subs>>

\* a reconnect timer expires
Timer ==
    /\ Unused(lib) # {}
    /\ \E i \in 1..Len(lib.timers) : lib' = onTimer(Begin(lib, "timer"), i)
    /\ UNCHANGED <<server, subs>>

\* the connection of a socket is established
SocketOpen ==
    /\ Unused(lib) # {}
    /\ \E s \in Sockets :
          /\ lib.socketState[s] = "CONNECTING"
          /\ lib' = onopen(Begin(lib, "open"), s)
    /\ UNCHANGED <<server, subs>>

\* a socket is closed: its connection failed or dropped, or close() is done
SocketClose ==
    /\ \E s \in Sockets :
          /\ lib.socketState[s] \in {"CONNECTING", "OPEN", "CLOSING"}
          /\ lib' = onclose(Begin(lib, "close"), s)
    /\ UNCHANGED <<server, subs>>

\* the library under every interleaving of the application's calls, the
\* timers, the online event and the events of its sockets
NextClient ==
    \/ AppConnect
    \/ AppJoinRoom
    \/ AppDisconnect
    \/ Online
    \/ Timer
    \/ SocketOpen
    \/ SocketClose

SpecClient == Init /\ [][NextClient]_vars

\* C36: after disconnect(), and until the application calls connect() or
\* joinRoom() again, no step of the library creates a WebSocket or sends
\* join_room.
C36_QuietAfterDisconnect ==
    lib.disconnected => (~lib.created /\ lib.joins = 0)

\* the close event of the socket that disconnect() closed has scheduled a
\* reconnect, and its timer has opened a new socket
C36_ReconnectAfterDisconnect ==
    /\ lib.disconnected
    /\ lib.step = "timer"
    /\ lib.created
    /\ lib.calls = 2

\* a reconnect made after disconnect(), with the earlier room still in
\* roomId, sends join_room when its socket opens
C36_RejoinAfterDisconnect ==
    /\ lib.disconnected
    /\ lib.step = "open"
    /\ lib.by = "reconnect"
    /\ lib.joins = 1

\* C37: the client never has more than one WebSocket that is connecting or
\* open.
C37_OneLiveSocket == Cardinality(Live(lib)) <= 1

\* two sockets are connecting at once, the second one opened by a reconnect
\* timer: the close event of an earlier socket has cleared isConnecting
C37_TwoConnecting ==
    /\ Cardinality({s \in Sockets : lib.socketState[s] = "CONNECTING"}) = 2
    /\ lib.step = "timer"

\* two sockets are open at once
C37_TwoOpen ==
    Cardinality({s \in Sockets : lib.socketState[s] = "OPEN"}) = 2


\* C38: the delays scheduled since the last open are 1000, 2000, 4000, 8000
\* and 16000 ms in this order, so at most 5 of them; no more than 5 timers
\* have made an attempt since then; once max_reconnect_attempts is emitted no
\* timer is pending and it is emitted once; an open leaves the attempt counter
\* at 0; and the open of a reconnect, with a room joined before, sends one
\* join_room.
C38_RetryChain ==
    /\ \A k \in 1..Len(lib.delays) : lib.delays[k] = ReconnectDelay * 2 ^ (k - 1)
    /\ Len(lib.delays) <= MaxReconnectAttempts
    /\ lib.reconnectAttempts <= MaxReconnectAttempts
    /\ lib.emitted > 0 => (lib.emitted = 1 /\ lib.timers = << >>)
    /\ lib.step = "open" => lib.reconnectAttempts = 0
    /\ (lib.step = "open" /\ lib.by = "reconnect" /\ lib.roomId # NoRoomId)
          => lib.joins = 1

\* the claim for the library left to itself after one call of the
\* application: its sockets open, fail and drop, and its timers expire
C38_RetryChainAlone == lib.calls <= 1 => C38_RetryChain

\* left to itself after joinRoom(), the library has seen five reconnects fail
\* after a drop, with the five delays, and has emitted max_reconnect_attempts
C38_GaveUp ==
    /\ lib.calls = 1
    /\ lib.emitted = 1
    /\ lib.delays = <<1000, 2000, 4000, 8000, 16000>>
    /\ lib.roomId = Room

\* left to itself after joinRoom(), a reconnect has opened and has sent
\* join_room again
C38_Rejoined ==
    /\ lib.calls = 1
    /\ lib.step = "open"
    /\ lib.by = "reconnect"
    /\ lib.joins = 1

\* the timer of an earlier drop has expired on an open connection: the first
\* retry after the next drop is scheduled with 2000 ms
C38_StaleTimerCounted ==
    /\ lib.calls = 2
    /\ lib.step = "close"
    /\ lib.delays = <<2000>>
    /\ lib.timers = <<2000>>
    /\ Cardinality({s \in Sockets : lib.socketState[s] = "CLOSED"}) = 2
    /\ \A s \in Sockets : lib.socketState[s] \in {"CLOSED", "UNUSED"}
    /\ ~lib.disconnected

\* ------------------------------------------- the callbacks and a message
\* on("room_state_response", callback) by the application
On(cb) ==
    /\ Len(subs.callbacks) < MaxCallbacks
    /\ subs' = [subs EXCEPT !.callbacks = Append(@, [id |-> cb, requestId |-> NoRequest]),
                            !.step = "on", !.invoked = << >>, !.arrived = << >>]
    /\ UNCHANGED <<server, lib>>

\* off("room_state_response", callback) by the application
Off(cb) ==
    /\ subs' = [subs EXCEPT !.callbacks = off(@, [id |-> cb, requestId |-> NoRequest]),
                            !.step = "off", !.invoked = << >>, !.arrived = << >>]
    /\ UNCHANGED <<server, lib>>

\* requestRoomState(): handleResponse registered with the next requestId
RequestRoomState ==
    /\ Len(subs.callbacks) < MaxCallbacks
    /\ subs.requestIdCounter < MaxRequests
    /\ LET requestId == subs.requestIdCounter + 1
       IN subs' = [subs EXCEPT !.requestIdCounter = requestId,
                               !.callbacks = Append(@, [id |-> "handleResponse",
                                                        requestId |-> requestId]),
                               !.step = "request", !.invoked = << >>, !.arrived = << >>]
    /\ UNCHANGED <<server, lib>>

\* the timeout of a requestRoomState()
RequestTimeout ==
    /\ \E requestId \in 1..subs.requestIdCounter :
          subs' = [subs EXCEPT !.callbacks = off(@, [id |-> "handleResponse",
                                                     requestId |-> requestId]),
                               !.step = "timeout", !.invoked = << >>, !.arrived = << >>]
    /\ UNCHANGED <<server, lib>>

\* handleMessage(message) with a room_state_response
Message ==
    /\ \E requestId \in 1..MaxRequests :
          \E done \in {forEach(subs.callbacks, 1, Len(subs.callbacks), requestId, << >>)} :
              subs' = [subs EXCEPT !.callbacks = done.callbacks,
                                   !.invoked = done.invoked,
                                   !.arrived = subs.callbacks,
                                   !.step = "message"]
    /\ UNCHANGED <<server, lib>>

NextDispatch ==
    \/ \E cb \in AppCallbacks : On(cb)
    \/ \E cb \in AppCallbacks : Off(cb)
    \/ RequestRoomState
    \/ RequestTimeout
    \/ Message

SpecDispatch == Init /\ [][NextDispatch]_vars

\* the times a callback is in a list of callbacks
Times(cbs, cb) == Cardinality({k \in 1..Len(cbs) : cbs[k] = cb})

\* C39: the callbacks invoked with a message are the callbacks registered
\* when it arrived, each invoked once.
C39_EveryCallbackOnce ==
    subs.step = "message" =>
        /\ Len(subs.invoked) = Len(subs.arrived)
        /\ \A k \in 1..Len(subs.arrived) :
              Times(subs.invoked, subs.arrived[k]) = Times(subs.arrived, subs.arrived[k])

\* the response of a request has arrived; its handleResponse, registered
\* before a callback of the application, has unsubscribed itself, and that
\* callback has not been invoked
C39_CallbackSkipped ==
    /\ subs.step = "message"
    /\ subs.arrived = <<[id |-> "handleResponse", requestId |-> 1],
                        [id |-> "a", requestId |-> NoRequest]>>
    /\ subs.invoked = <<[id |-> "handleResponse", requestId |-> 1]>>
    /\ subs.callbacks = <<[id |-> "a", requestId |-> NoRequest]>>

\* without a callback that unsubscribes itself the dispatch is as claimed
C39_OnceWhenNoneUnsubscribes ==
    (subs.step = "message" /\ subs.callbacks = subs.arrived)
        => subs.invoked = subs.arrived
=============================================================================
